---- MODULE Spec2Model ----
(***************************************************************************)
(* A model of src/src/SparseMatrix.py: the CompressedMatrix class (a       *)
(* sparse matrix stored as a dict from the string key "row,col" to an      *)
(* integer), its element access, its three binary operations and its text  *)
(* serialisation.                                                          *)
(*                                                                         *)
(* A Python str is a sequence of one-character strings.  Python objects    *)
(* live in a heap: a CompressedMatrix object holds its two dimensions and  *)
(* a reference to its dict, and a dict is the sequence of its items in     *)
(* insertion order (the order Python's dict iterates in).                  *)
(***************************************************************************)
EXTENDS Integers, Sequences, FiniteSets, TLC

VARIABLES
    heap,   \* the objects: [objs: CompressedMatrix objects, dicts: their dicts]
    file,   \* the text of the one file of the model, or NoFile
    last,   \* the last call made: what was called, on what, what it returned
    nsets   \* the number of update_value calls made by the caller so far

vars == <<heap, file, last, nsets>>

(***************************************************************************)
(* The bound of the model and the inputs of the caller.                    *)
(***************************************************************************)
\* The largest number of update_value calls the caller makes in a run.
MaxSets == 2

\* The caller, as perform_matrix_operations does, works on two matrices
\* and applies one binary operation to them.
Operands == 2

\* The dimensions <<rows, cols>> the caller passes to the constructor.
Shapes == {<<0, 0>>, <<2, 2>>}
\* The indices the caller passes to update_value.
Idx == {0, 1}
\* The values the caller stores: zero and a negative number (sums, differences
\* and products of the stored values give the positive ones).
Vals == {0, -3}

(***************************************************************************)
(* Python's str and int.                                                   *)
(***************************************************************************)
DigitChars == <<"0", "1", "2", "3", "4", "5", "6", "7", "8", "9">>

IsDigit(c) == \E d \in 1 .. 10 : DigitChars[d] = c

DigitVal(c) == (CHOOSE d \in 1 .. 10 : DigitChars[d] = c) - 1

\* The characters str.strip() removes and int() skips around a number, among
\* the characters the texts of the model are made of.
Whitespace == {" ", "\t", "\n"}

RECURSIVE NatToStr(_)
NatToStr(n) ==
    IF n < 10 THEN <<DigitChars[n + 1]>>
    ELSE NatToStr(n \div 10) \o <<DigitChars[(n % 10) + 1]>>

\* str(n), as an f-string renders an int.
IntToStr(n) == IF n < 0 THEN <<"-">> \o NatToStr(0 - n) ELSE NatToStr(n)

RECURSIVE LStrip(_)
LStrip(s) ==
    IF s # <<>> /\ Head(s) \in Whitespace THEN LStrip(Tail(s)) ELSE s

RECURSIVE RStrip(_)
RStrip(s) ==
    IF s # <<>> /\ s[Len(s)] \in Whitespace
    THEN RStrip(SubSeq(s, 1, Len(s) - 1))
    ELSE s

\* str.strip()
Strip(s) == RStrip(LStrip(s))

\* The value of a digit string that may hold single underscores between
\* its digits (int("1_0") is 10); acc is the value read so far.
RECURSIVE DigitsVal(_, _)
DigitsVal(s, acc) ==
    IF s = <<>> THEN acc
    ELSE IF Head(s) = "_" THEN DigitsVal(Tail(s), acc)
    ELSE DigitsVal(Tail(s), acc * 10 + DigitVal(Head(s)))

\* Whether s is what int() takes after the sign: digits, with single
\* underscores only between two digits.
IsDigits(s) ==
    /\ s # <<>>
    /\ \A i \in 1 .. Len(s) : IsDigit(s[i]) \/ s[i] = "_"
    /\ IsDigit(s[1])
    /\ IsDigit(s[Len(s)])
    /\ \A i \in 1 .. Len(s) - 1 : ~(s[i] = "_" /\ s[i + 1] = "_")

\* int(s): surrounding whitespace is skipped, one sign is allowed.
\* ok is FALSE where Python raises ValueError.
ParseInt(s) ==
    LET t == Strip(s)
        signed == t # <<>> /\ Head(t) \in {"+", "-"}
        body == IF signed THEN Tail(t) ELSE t
        mag == DigitsVal(body, 0)
    IN IF IsDigits(body)
       THEN [ok |-> TRUE,
             val |-> IF signed /\ Head(t) = "-" THEN 0 - mag ELSE mag]
       ELSE [ok |-> FALSE, val |-> 0]

\* str.split(sep) for a one-character separator: cur is the piece being read.
RECURSIVE SplitFrom(_, _, _)
SplitFrom(s, sep, cur) ==
    IF s = <<>> THEN <<cur>>
    ELSE IF Head(s) = sep THEN <<cur>> \o SplitFrom(Tail(s), sep, <<>>)
    ELSE SplitFrom(Tail(s), sep, Append(cur, Head(s)))

Split(s, sep) == SplitFrom(s, sep, <<>>)

\* sep.join(parts)
RECURSIVE Join(_, _)
Join(parts, sep) ==
    IF parts = <<>> THEN <<>>
    ELSE IF Len(parts) = 1 THEN parts[1]
    ELSE parts[1] \o sep \o Join(Tail(parts), sep)

(***************************************************************************)
(* Python's dict, as the sequence of its items in insertion order.         *)
(***************************************************************************)
HasKey(d, key) == \E i \in 1 .. Len(d) : d[i].key = key

\* d.get(key, default)
DictGet(d, key, default) ==
    IF HasKey(d, key)
    THEN d[CHOOSE i \in 1 .. Len(d) : d[i].key = key].val
    ELSE default

\* d[key] = val: a key already present keeps its place.
DictSet(d, key, val) ==
    IF HasKey(d, key)
    THEN [i \in 1 .. Len(d) |-> IF d[i].key = key THEN [key |-> key, val |-> val] ELSE d[i]]
    ELSE Append(d, [key |-> key, val |-> val])

(***************************************************************************)
(* CompressedMatrix.                                                       *)
(***************************************************************************)
\* self.matrix_data of the object self.
Data(h, self) == h.dicts[h.objs[self].matrix_data]

\* The key f"{row},{col}".
KeyOf(row, col) == IntToStr(row) \o <<",">> \o IntToStr(col)

\* map(int, key.split(',')): the pair <<row, col>> of a key.
KeyRow(key) == ParseInt(Split(key, ",")[1]).val
KeyCol(key) == ParseInt(Split(key, ",")[2]).val

\* CompressedMatrix(rows_count, cols_count): a new object with a new, empty
\* dict.  Returns the heap and the new object's reference.
CompressedMatrix(h, rows_count, cols_count) ==
    [heap |-> [objs |-> Append(h.objs, [total_rows |-> rows_count,
                                         total_cols |-> cols_count,
                                         matrix_data |-> Len(h.dicts) + 1]),
               dicts |-> Append(h.dicts, <<>>)],
     ref |-> Len(h.objs) + 1]

\* update_value with "row > self.total_rows": it does not grow for the index
\* just beyond the dimensions.
update_value_grows_late(h, self, row, col, val) ==
    LET o == h.objs[self]
        rows == IF row > o.total_rows THEN row + 1 ELSE o.total_rows
        cols == IF col > o.total_cols THEN col + 1 ELSE o.total_cols
    IN [objs |-> [h.objs EXCEPT ![self] =
                     [@ EXCEPT !.total_rows = rows, !.total_cols = cols]],
        dicts |-> [h.dicts EXCEPT ![o.matrix_data] =
                     DictSet(@, KeyOf(row, col), val)]]

\* update_value with "self.total_cols = col": it grows to the index, not to
\* one past it.
update_value_grows_short(h, self, row, col, val) ==
    LET o == h.objs[self]
        rows == IF row >= o.total_rows THEN row + 1 ELSE o.total_rows
        cols == IF col >= o.total_cols THEN col ELSE o.total_cols
    IN [objs |-> [h.objs EXCEPT ![self] =
                     [@ EXCEPT !.total_rows = rows, !.total_cols = cols]],
        dicts |-> [h.dicts EXCEPT ![o.matrix_data] =
                     DictSet(@, KeyOf(row, col), val)]]

update_value(h, self, row, col, val) ==
    LET o == h.objs[self]
        rows == IF row >= o.total_rows THEN row + 1 ELSE o.total_rows
        cols == IF col >= o.total_cols THEN col + 1 ELSE o.total_cols
    IN [objs |-> [h.objs EXCEPT ![self] =
                     [@ EXCEPT !.total_rows = rows, !.total_cols = cols]],
        dicts |-> [h.dicts EXCEPT ![o.matrix_data] =
                     DictSet(@, KeyOf(row, col), val)]]

retrieve_value(h, self, row, col) == DictGet(Data(h, self), KeyOf(row, col), 0)

(***************************************************************************)
(* The binary operations.  Each returns the heap after the call, the       *)
(* reference returned (<<>> when the call raised) and the exception        *)
(* raised ("" when none was).                                              *)
(***************************************************************************)
Raised(h, e) == [heap |-> h, ret |-> <<>>, err |-> e]

Returned(h, ref) == [heap |-> h, ret |-> <<ref>>, err |-> ""]

\* for key, val in self.matrix_data.items(): combined.update_value(row, col, val)
RECURSIVE AddSelfLoop(_, _, _, _)
AddSelfLoop(h, self, combined, i) ==
    IF i > Len(Data(h, self)) THEN h
    ELSE LET e == Data(h, self)[i]
         IN AddSelfLoop(update_value(h, combined, KeyRow(e.key), KeyCol(e.key), e.val),
                        self, combined, i + 1)

\* The second loop of matrix_add storing val alone: other's value replaces
\* self's where both hold a key.
RECURSIVE AddOtherLoop_overwrites(_, _, _, _)
AddOtherLoop_overwrites(h, other, combined, i) ==
    IF i > Len(Data(h, other)) THEN h
    ELSE LET e == Data(h, other)[i]
         IN AddOtherLoop_overwrites(update_value(h, combined, KeyRow(e.key),
                                                 KeyCol(e.key), e.val),
                                    other, combined, i + 1)

\* for key, val in other_matrix.matrix_data.items():
\*     combined.update_value(row, col, combined.retrieve_value(row, col) + val)
RECURSIVE AddOtherLoop(_, _, _, _)
AddOtherLoop(h, other, combined, i) ==
    IF i > Len(Data(h, other)) THEN h
    ELSE LET e == Data(h, other)[i]
             row == KeyRow(e.key)
             col == KeyCol(e.key)
         IN AddOtherLoop(update_value(h, combined, row, col,
                                      retrieve_value(h, combined, row, col) + e.val),
                         other, combined, i + 1)

\* matrix_add with "combined_matrix.matrix_data = self.matrix_data" for its
\* first loop: the result shares the dict of self.
matrix_add_shares_dict(h, self, other) ==
    IF \/ h.objs[self].total_rows # h.objs[other].total_rows
       \/ h.objs[self].total_cols # h.objs[other].total_cols
    THEN Raised(h, "ValueError")
    ELSE LET ref == Len(h.objs) + 1
             h1 == [objs |-> Append(h.objs, [total_rows |-> h.objs[self].total_rows,
                                             total_cols |-> h.objs[self].total_cols,
                                             matrix_data |-> h.objs[self].matrix_data]),
                    dicts |-> h.dicts]
         IN Returned(AddOtherLoop(h1, other, ref, 1), ref)

matrix_add(h, self, other) ==
    IF \/ h.objs[self].total_rows # h.objs[other].total_rows
       \/ h.objs[self].total_cols # h.objs[other].total_cols
    THEN Raised(h, "ValueError")
    ELSE LET new == CompressedMatrix(h, h.objs[self].total_rows, h.objs[self].total_cols)
             h1 == AddSelfLoop(new.heap, self, new.ref, 1)
             h2 == AddOtherLoop(h1, other, new.ref, 1)
         IN Returned(h2, new.ref)

\* for key, val in subtract_matrix.matrix_data.items():
\*     diff.update_value(row, col, self.retrieve_value(row, col) - val)
RECURSIVE SubtractLoop(_, _, _, _, _)
SubtractLoop(h, self, other, diff, i) ==
    IF i > Len(Data(h, other)) THEN h
    ELSE LET e == Data(h, other)[i]
             row == KeyRow(e.key)
             col == KeyCol(e.key)
         IN SubtractLoop(update_value(h, diff, row, col,
                                      retrieve_value(h, self, row, col) - e.val),
                         self, other, diff, i + 1)

\* matrix_subtract that first copies the entries of self, as matrix_add does.
matrix_subtract_copies_self(h, self, other) ==
    IF \/ h.objs[self].total_rows # h.objs[other].total_rows
       \/ h.objs[self].total_cols # h.objs[other].total_cols
    THEN Raised(h, "ValueError")
    ELSE LET new == CompressedMatrix(h, h.objs[self].total_rows, h.objs[self].total_cols)
             h1 == AddSelfLoop(new.heap, self, new.ref, 1)
         IN Returned(SubtractLoop(h1, self, other, new.ref, 1), new.ref)

matrix_subtract(h, self, other) ==
    IF \/ h.objs[self].total_rows # h.objs[other].total_rows
       \/ h.objs[self].total_cols # h.objs[other].total_cols
    THEN Raised(h, "ValueError")
    ELSE LET new == CompressedMatrix(h, h.objs[self].total_rows, h.objs[self].total_cols)
         IN Returned(SubtractLoop(new.heap, self, other, new.ref, 1), new.ref)

\* The inner loop of matrix_multiply storing the product alone: it does not
\* accumulate.
RECURSIVE MultiplyInner_overwrites(_, _, _, _, _, _, _)
MultiplyInner_overwrites(h, other, product, row1, col1, first_val, j) ==
    IF j > Len(Data(h, other)) THEN h
    ELSE LET e == Data(h, other)[j]
             h1 == IF col1 = KeyRow(e.key)
                   THEN update_value(h, product, row1, KeyCol(e.key), first_val * e.val)
                   ELSE h
         IN MultiplyInner_overwrites(h1, other, product, row1, col1, first_val, j + 1)

\* The inner loop of matrix_multiply, for the item (row1, col1, first_val).
RECURSIVE MultiplyInner(_, _, _, _, _, _, _)
MultiplyInner(h, other, product, row1, col1, first_val, j) ==
    IF j > Len(Data(h, other)) THEN h
    ELSE LET e == Data(h, other)[j]
             row2 == KeyRow(e.key)
             col2 == KeyCol(e.key)
             h1 == IF col1 = row2
                   THEN update_value(h, product, row1, col2,
                                     retrieve_value(h, product, row1, col2)
                                         + first_val * e.val)
                   ELSE h
         IN MultiplyInner(h1, other, product, row1, col1, first_val, j + 1)

\* The outer loop of matrix_multiply.
RECURSIVE MultiplyOuter(_, _, _, _, _)
MultiplyOuter(h, self, other, product, i) ==
    IF i > Len(Data(h, self)) THEN h
    ELSE LET e == Data(h, self)[i]
         IN MultiplyOuter(MultiplyInner(h, other, product, KeyRow(e.key),
                                        KeyCol(e.key), e.val, 1),
                          self, other, product, i + 1)

\* matrix_multiply comparing the columns of self with the columns of other.
matrix_multiply_checks_cols(h, self, other) ==
    IF h.objs[self].total_cols # h.objs[other].total_cols
    THEN Raised(h, "ValueError")
    ELSE LET new == CompressedMatrix(h, h.objs[self].total_rows, h.objs[other].total_cols)
         IN Returned(MultiplyOuter(new.heap, self, other, new.ref, 1), new.ref)

matrix_multiply(h, self, other) ==
    IF h.objs[self].total_cols # h.objs[other].total_rows
    THEN Raised(h, "ValueError")
    ELSE LET new == CompressedMatrix(h, h.objs[self].total_rows, h.objs[other].total_cols)
         IN Returned(MultiplyOuter(new.heap, self, other, new.ref, 1), new.ref)

(***************************************************************************)
(* Serialisation and import.                                               *)
(***************************************************************************)
\* The file does not exist.
NoFile == <<"<no file>">>

\* __str__ rendering "(col, row, val)".
RECURSIVE StrItems_swapped(_, _)
StrItems_swapped(d, i) ==
    IF i > Len(d) THEN <<>>
    ELSE LET parts == Split(d[i].key, ",")
         IN <<<<"(">> \o parts[2] \o <<",", " ">> \o parts[1] \o <<",", " ">>
                 \o IntToStr(d[i].val) \o <<")">>>>
            \o StrItems_swapped(d, i + 1)

\* The lines "(row, col, val)" of __str__, from item i on.  __str__ splits
\* the key and renders its two pieces as they are.
RECURSIVE StrItems(_, _)
StrItems(d, i) ==
    IF i > Len(d) THEN <<>>
    ELSE LET parts == Split(d[i].key, ",")
         IN <<<<"(">> \o parts[1] \o <<",", " ">> \o parts[2] \o <<",", " ">>
                 \o IntToStr(d[i].val) \o <<")">>>>
            \o StrItems(d, i + 1)

\* __str__: "rows=..", "cols=..", then one line for each item, joined by "\n".
matrix_str(h, self) ==
    Join(<<<<"r", "o", "w", "s", "=">> \o IntToStr(h.objs[self].total_rows),
           <<"c", "o", "l", "s", "=">> \o IntToStr(h.objs[self].total_cols)>>
         \o StrItems(Data(h, self), 1),
         <<"\n">>)

\* save_matrix: the file holds str(self).
save_matrix(h, self) == matrix_str(h, self)

\* file.readlines(): the lines of a text, each with its "\n" when it has one.
RECURSIVE ReadLines(_, _)
ReadLines(s, cur) ==
    IF s = <<>> THEN (IF cur = <<>> THEN <<>> ELSE <<cur>>)
    ELSE IF Head(s) = "\n" THEN <<Append(cur, "\n")>> \o ReadLines(Tail(s), <<>>)
    ELSE ReadLines(Tail(s), Append(cur, Head(s)))

\* [line.strip() for line in data_lines if line.strip()]
RECURSIVE StripNonBlank(_)
StripNonBlank(lines) ==
    IF lines = <<>> THEN <<>>
    ELSE IF Strip(Head(lines)) = <<>> THEN StripNonBlank(Tail(lines))
    ELSE <<Strip(Head(lines))>> \o StripNonBlank(Tail(lines))

\* _load_matrix_from_file: the stripped non-blank lines of the file.
load_matrix_from_file(f) ==
    IF f = NoFile THEN [lines |-> <<>>, err |-> "FileNotFoundError"]
    ELSE [lines |-> StripNonBlank(ReadLines(f, <<>>)), err |-> ""]

\* int(line.split('=')[1]): IndexError and ValueError both end as ok = FALSE.
DimensionOf(line) ==
    LET parts == Split(line, "=")
    IN IF Len(parts) < 2 THEN [ok |-> FALSE, val |-> 0] ELSE ParseInt(parts[2])

\* The loop of import_from_file raising for an index at or beyond the
\* dimensions instead of growing.
RECURSIVE ImportElements_bounded(_, _, _, _)
ImportElements_bounded(h, matrix_instance, data_lines, i) ==
    IF i > Len(data_lines) THEN [heap |-> h, err |-> ""]
    ELSE LET element_line == data_lines[i]
             parts == Split(SubSeq(element_line, 2, Len(element_line) - 1), ",")
             row_index == ParseInt(parts[1])
             col_index == ParseInt(parts[2])
             value == ParseInt(parts[3])
         IN IF Head(element_line) # "(" \/ element_line[Len(element_line)] # ")"
            THEN [heap |-> h, err |-> "ValueError"]
            ELSE IF Len(parts) < 3
            THEN [heap |-> h, err |-> "ValueError"]
            ELSE IF ~(row_index.ok /\ col_index.ok /\ value.ok)
            THEN [heap |-> h, err |-> "ValueError"]
            ELSE IF \/ row_index.val >= h.objs[matrix_instance].total_rows
                    \/ col_index.val >= h.objs[matrix_instance].total_cols
            THEN [heap |-> h, err |-> "ValueError"]
            ELSE ImportElements_bounded(update_value(h, matrix_instance, row_index.val,
                                                     col_index.val, value.val),
                                        matrix_instance, data_lines, i + 1)

\* The loop of import_from_file over the element lines, from line i on.
\* Returns the heap and the exception raised ("" when none was).
RECURSIVE ImportElements(_, _, _, _)
ImportElements(h, matrix_instance, data_lines, i) ==
    IF i > Len(data_lines) THEN [heap |-> h, err |-> ""]
    ELSE LET element_line == data_lines[i]
             parts == Split(SubSeq(element_line, 2, Len(element_line) - 1), ",")
             row_index == ParseInt(parts[1])
             col_index == ParseInt(parts[2])
             value == ParseInt(parts[3])
         IN IF Head(element_line) # "(" \/ element_line[Len(element_line)] # ")"
            THEN [heap |-> h, err |-> "ValueError"]
            ELSE IF Len(parts) < 3
            THEN [heap |-> h, err |-> "ValueError"]
            ELSE IF ~(row_index.ok /\ col_index.ok /\ value.ok)
            THEN [heap |-> h, err |-> "ValueError"]
            ELSE ImportElements(update_value(h, matrix_instance, row_index.val,
                                             col_index.val, value.val),
                                matrix_instance, data_lines, i + 1)

\* import_from_file.  A call that raises leaves the heap as it was: the
\* object it was building is referenced by nothing.
import_from_file(h, f) ==
    LET loaded == load_matrix_from_file(f)
        data_lines == loaded.lines
        rows_count == DimensionOf(data_lines[1])
        cols_count == DimensionOf(data_lines[2])
        new == CompressedMatrix(h, rows_count.val, cols_count.val)
        done == ImportElements(new.heap, new.ref, data_lines, 3)
    IN IF loaded.err # "" THEN Raised(h, loaded.err)
       ELSE IF Len(data_lines) < 2 THEN Raised(h, "ValueError")
       ELSE IF ~(rows_count.ok /\ cols_count.ok) THEN Raised(h, "ValueError")
       ELSE IF done.err # "" THEN Raised(h, done.err)
       ELSE Returned(done.heap, new.ref)

(***************************************************************************)
(* The files the caller imports: the two operands of the multiplication    *)
(* example (the second with a row index beyond its header, a repeated      *)
(* coordinate, a blank line and an indented line), texts that depart from  *)
(* the format in one way each, and a path with no file.                    *)
(***************************************************************************)
Files ==
    [ first |->
       <<"r", "o", "w", "s", "=", "1", "\n", "c", "o", "l", "s", "=",
           "2", "\n", "(", "0", ",", " ", "0", ",", " ", "2", ")", "\n",
           "(", "0", ",", " ", "1", ",", " ", "3", ")">>,
     second |->
       <<"r", "o", "w", "s", "=", "1", "\n", "c", "o", "l", "s", "=",
           "1", "\n", "(", "0", ",", " ", "0", ",", " ", "-", "3", ")",
           "\n", "(", "1", ",", " ", "0", ",", " ", "5", ")", "\n", "\n",
           " ", " ", "(", "0", ",", " ", "0", ",", " ", "4", ")", "\n">>,
     four_fields |->
       <<"r", "o", "w", "s", "=", "1", "\n", "c", "o", "l", "s", "=",
           "2", "\n", "(", "0", ",", " ", "0", ",", " ", "2", ",", " ",
           "9", ")", "\n", "(", "0", ",", " ", "1", ",", " ", "3", ")">>,
     keyword |->
       <<"f", "o", "o", "=", "0", "\n", "b", "a", "r", "=", "0">>,
     two_equals |->
       <<"r", "o", "w", "s", "=", "0", "=", "7", "\n", "c", "o", "l",
           "s", "=", "0">>,
     loose |->
       <<"r", "o", "w", "s", "=", " ", "0", "\n", "c", "o", "l", "s",
           "=", "+", "0", "_", "0">>,
     one_line |->
       <<"r", "o", "w", "s", "=", "2", "\n">>,
     blank_rest |->
       <<"r", "o", "w", "s", "=", "2", "\n", "\n", " ", "\t", "\n">>,
     empty |->
       <<>>,
     no_equals |->
       <<"r", "o", "w", "s", " ", "2", "\n", "c", "o", "l", "s", "=",
           "2">>,
     bad_rows |->
       <<"r", "o", "w", "s", "=", "x", "\n", "c", "o", "l", "s", "=",
           "2">>,
     bad_cols |->
       <<"r", "o", "w", "s", "=", "2", "\n", "c", "o", "l", "s", "=">>,
     no_open |->
       <<"r", "o", "w", "s", "=", "2", "\n", "c", "o", "l", "s", "=",
           "2", "\n", "0", ",", " ", "0", ",", " ", "5", ")">>,
     no_close |->
       <<"r", "o", "w", "s", "=", "2", "\n", "c", "o", "l", "s", "=",
           "2", "\n", "(", "0", ",", " ", "0", ",", " ", "5">>,
     two_fields |->
       <<"r", "o", "w", "s", "=", "2", "\n", "c", "o", "l", "s", "=",
           "2", "\n", "(", "0", ",", " ", "0", ")">>,
     bad_field |->
       <<"r", "o", "w", "s", "=", "2", "\n", "c", "o", "l", "s", "=",
           "2", "\n", "(", "0", ",", " ", "a", ",", " ", "5", ")">>,
     real_value |->
       <<"r", "o", "w", "s", "=", "2", "\n", "c", "o", "l", "s", "=",
           "2", "\n", "(", "0", ",", " ", "0", ",", " ", "1", ".", "5",
           ")">>,
     bad_sign |->
       <<"r", "o", "w", "s", "=", "2", "\n", "c", "o", "l", "s", "=",
           "2", "\n", "(", "0", ",", " ", "0", ",", " ", "-", "-", "5",
           ")">>,
     late_error |->
       <<"r", "o", "w", "s", "=", "1", "\n", "c", "o", "l", "s", "=",
           "2", "\n", "(", "0", ",", " ", "0", ",", " ", "2", ")", "\n",
           "(", "0", ",", " ", "1", ",", " ", "3", ")", "\n", "(", "0",
           ",", " ", "1">>,
     missing |->
       NoFile]

InputPaths == DOMAIN Files

\* The files the caller takes the operands of a binary operation from.
OperandPaths == {"first", "second"}

\* The path save_matrix writes.
OutPath == "out"

\* The text at a path.
FileText(path) == IF path = OutPath THEN file ELSE Files[path]

(***************************************************************************)
(* The state machine: a caller that creates matrices (by the constructor   *)
(* or by import), sets elements, applies a binary operation and saves.     *)
(***************************************************************************)
Refs == 1 .. Len(heap.objs)

Call(op, args, ret, err) == [op |-> op, args |-> args, ret |-> ret, err |-> err]

Init ==
    /\ heap = [objs |-> <<>>, dicts |-> <<>>]
    /\ file = NoFile
    /\ last = Call("start", <<>>, <<>>, "")
    /\ nsets = 0

Construct(rows_count, cols_count) ==
    /\ Len(heap.objs) < Operands
    /\ LET new == CompressedMatrix(heap, rows_count, cols_count)
       IN /\ heap' = new.heap
          /\ last' = Call("CompressedMatrix", <<rows_count, cols_count>>, <<new.ref>>, "")
    /\ UNCHANGED <<file, nsets>>

Import(path) ==
    /\ Len(heap.objs) < Operands
    /\ LET done == import_from_file(heap, FileText(path))
       IN /\ heap' = done.heap
          /\ last' = Call("import_from_file", <<path>>, done.ret, done.err)
    /\ UNCHANGED <<file, nsets>>

Set(self, row, col, val) ==
    /\ nsets < MaxSets
    /\ heap' = update_value(heap, self, row, col, val)
    /\ last' = Call("update_value", <<self, row, col, val>>, <<>>, "")
    /\ nsets' = nsets + 1
    /\ UNCHANGED file

Save(self) ==
    /\ file' = save_matrix(heap, self)
    /\ last' = Call("save_matrix", <<self>>, <<>>, "")
    /\ UNCHANGED <<heap, nsets>>

\* The operations perform_matrix_operations offers.
BinaryOps == {"matrix_add", "matrix_subtract", "matrix_multiply"}

\* A binary operation; done is what the method returned.
Binary(op, self, other, done) ==
    /\ Len(heap.objs) = Operands
    /\ heap' = done.heap
    /\ last' = Call(op, <<self, other>>, done.ret, done.err)
    /\ UNCHANGED <<file, nsets>>

Add(self, other) == Binary("matrix_add", self, other, matrix_add(heap, self, other))

Subtract(self, other) ==
    Binary("matrix_subtract", self, other, matrix_subtract(heap, self, other))

Multiply(self, other) ==
    Binary("matrix_multiply", self, other, matrix_multiply(heap, self, other))

\* The matrix operations on matrices built by the constructor, by import
\* and by update_value.  The two matrices are built by the same calls, so
\* the states are symmetric in them: self is the first one, other is either.
Next ==
    \/ \E shape \in Shapes : Construct(shape[1], shape[2])
    \/ \E path \in OperandPaths : Import(path)
    \/ \E self \in Refs, row \in Idx, col \in Idx, val \in Vals : Set(self, row, col, val)
    \/ \E other \in Refs : Add(1, other)
    \/ \E other \in Refs : Subtract(1, other)
    \/ \E other \in Refs : Multiply(1, other)

Spec == Init /\ [][Next]_vars

\* The order of perform_matrix_operations: the two matrices are built, an
\* operation is applied to them, and the result it returned is saved to the
\* output file; an operation that raised saves nothing.  Nothing is updated
\* once the operation has returned its result.  The operands are the
\* imported files of the driver, or what a caller of the class builds with
\* the constructor and update_value.
NextOps ==
    \/ \E shape \in Shapes : Construct(shape[1], shape[2])
    \/ \E path \in OperandPaths : Import(path)
    \/ \E self \in Refs, row \in Idx, col \in Idx, val \in Vals :
           Len(heap.objs) <= Operands /\ Set(self, row, col, val)
    \/ \E other \in Refs : Add(1, other)
    \/ \E other \in Refs : Subtract(1, other)
    \/ \E other \in Refs : Multiply(1, other)
    \/ last.op \in BinaryOps /\ last.err = "" /\ Save(last.ret[1])

SpecOps == Init /\ [][NextOps]_vars

\* Importing the files of the model, saving a matrix and importing what was
\* saved.  import_from_file reads nothing of the objects that exist, so the
\* files of the model are imported while none does.
NextIO ==
    \/ \E shape \in Shapes : Construct(shape[1], shape[2])
    \/ \E self \in Refs, row \in Idx, col \in Idx, val \in Vals : Set(self, row, col, val)
    \/ \E self \in Refs : Save(self)
    \/ \E path \in InputPaths : heap.objs = <<>> /\ Import(path)
    \/ Import(OutPath)

SpecIO == Init /\ [][NextIO]_vars

(***************************************************************************)
(* What the claims are stated with.                                        *)
(***************************************************************************)
Rows(h, m) == h.objs[m].total_rows

Cols(h, m) == h.objs[m].total_cols

Max(a, b) == IF a >= b THEN a ELSE b

\* The coordinates <<row, col>> of the keys of matrix m.
StoredCoords(h, m) ==
    {<<KeyRow(Data(h, m)[i].key), KeyCol(Data(h, m)[i].key)>> : i \in 1 .. Len(Data(h, m))}

\* The coordinates a caller of the model can name: those of update_value
\* and of the imported files, and one row and column on either side.
Coords == (-1 .. 2) \X (-1 .. 2)

\* The sum of f[x] over the finite set S.
RECURSIVE SumOver(_, _)
SumOver(S, f) ==
    IF S = {} THEN 0
    ELSE LET x == CHOOSE y \in S : TRUE IN f[x] + SumOver(S \ {x}, f)

\* The sum of v1 * v2 over the pairs of a stored entry (row, k, v1) of a and
\* a stored entry (k, col, v2) of b.
PairSum(h, a, b, row, col) ==
    LET da == Data(h, a)
        db == Data(h, b)
        pairs == {pq \in (1 .. Len(da)) \X (1 .. Len(db)) :
                     /\ KeyRow(da[pq[1]].key) = row
                     /\ KeyCol(da[pq[1]].key) = KeyRow(db[pq[2]].key)
                     /\ KeyCol(db[pq[2]].key) = col}
    IN SumOver(pairs, [pq \in pairs |-> da[pq[1]].val * db[pq[2]].val])

(***************************************************************************)
(* C1.  In every reachable state, every key (r, c) of every matrix         *)
(* (constructed, imported, set or returned by a binary operation) has      *)
(* r < rows and c < cols.                                                  *)
(***************************************************************************)
C1_KeysWithinDimensions ==
    \A m \in Refs :
        LET d == Data(heap, m)
        IN \A i \in 1 .. Len(d) :
               /\ KeyRow(d[i].key) < Rows(heap, m)
               /\ KeyCol(d[i].key) < Cols(heap, m)

\* An update_value at the row and the column just beyond the dimensions has
\* stored its key, after another key was stored.
C1_Witness ==
    /\ last.op = "update_value"
    /\ Rows(heap, last.args[1]) = last.args[2] + 1
    /\ Cols(heap, last.args[1]) = last.args[3] + 1
    /\ <<last.args[2], last.args[3]>> \in StoredCoords(heap, last.args[1])
    /\ Len(Data(heap, last.args[1])) > 1

(***************************************************************************)
(* C2.  For A and B with equal rows and equal cols, add(A, B) returns a    *)
(* matrix with the rows and cols of A whose value, at every (r, c) that is *)
(* a key of A or of B, is A.get(r, c) + B.get(r, c).                       *)
(***************************************************************************)
C2_AddIsSum ==
    (/\ last.op = "matrix_add"
     /\ Rows(heap, last.args[1]) = Rows(heap, last.args[2])
     /\ Cols(heap, last.args[1]) = Cols(heap, last.args[2])) =>
        LET a == last.args[1]
            b == last.args[2]
            sum == last.ret[1]
        IN /\ last.err = ""
           /\ Len(last.ret) = 1
           /\ Rows(heap, sum) = Rows(heap, a)
           /\ Cols(heap, sum) = Cols(heap, a)
           /\ \A rc \in StoredCoords(heap, a) \cup StoredCoords(heap, b) :
                retrieve_value(heap, sum, rc[1], rc[2])
                    = retrieve_value(heap, a, rc[1], rc[2])
                      + retrieve_value(heap, b, rc[1], rc[2])

\* add has returned for two different matrices that both hold a nonzero
\* value at one coordinate, and one of them holds a key the other lacks.
C2_Witness ==
    /\ last.op = "matrix_add"
    /\ last.err = ""
    /\ last.args[1] # last.args[2]
    /\ \E rc \in StoredCoords(heap, last.args[1]) \cap StoredCoords(heap, last.args[2]) :
         /\ retrieve_value(heap, last.args[1], rc[1], rc[2]) # 0
         /\ retrieve_value(heap, last.args[2], rc[1], rc[2]) # 0
    /\ StoredCoords(heap, last.args[1]) # StoredCoords(heap, last.args[2])

(***************************************************************************)
(* C3.  For A and B with equal rows and equal cols, subtract(A, B) returns *)
(* a matrix with the dimensions of A whose keys are exactly the keys of B, *)
(* with the value A.get(r, c) minus B's value at each of them; so it reads *)
(* 0 at every key of A that is not a key of B.                             *)
(***************************************************************************)
C3_SubtractOverKeysOfOther ==
    (/\ last.op = "matrix_subtract"
     /\ Rows(heap, last.args[1]) = Rows(heap, last.args[2])
     /\ Cols(heap, last.args[1]) = Cols(heap, last.args[2])) =>
        LET a == last.args[1]
            b == last.args[2]
            diff == last.ret[1]
        IN /\ last.err = ""
           /\ Len(last.ret) = 1
           /\ Rows(heap, diff) = Rows(heap, a)
           /\ Cols(heap, diff) = Cols(heap, a)
           /\ StoredCoords(heap, diff) = StoredCoords(heap, b)
           /\ \A rc \in StoredCoords(heap, b) :
                retrieve_value(heap, diff, rc[1], rc[2])
                    = retrieve_value(heap, a, rc[1], rc[2])
                      - retrieve_value(heap, b, rc[1], rc[2])
           /\ \A rc \in StoredCoords(heap, a) \ StoredCoords(heap, b) :
                retrieve_value(heap, diff, rc[1], rc[2]) = 0

\* subtract has returned where A holds a nonzero value at a key B lacks,
\* and B holds a key.
C3_Witness ==
    /\ last.op = "matrix_subtract"
    /\ last.err = ""
    /\ StoredCoords(heap, last.args[2]) # {}
    /\ \E rc \in StoredCoords(heap, last.args[1]) \ StoredCoords(heap, last.args[2]) :
         retrieve_value(heap, last.args[1], rc[1], rc[2]) # 0

(***************************************************************************)
(* C4.  For A and B with A.cols = B.rows, multiply(A, B) returns a matrix  *)
(* with the dimensions (A.rows, B.cols) whose value at every (r, c) is the *)
(* sum of v1 * v2 over the pairs of a stored entry (r, k, v1) of A and a   *)
(* stored entry (k, c, v2) of B (0 when there is none).                    *)
(***************************************************************************)
C4_MultiplyIsPairSum ==
    (/\ last.op = "matrix_multiply"
     /\ Cols(heap, last.args[1]) = Rows(heap, last.args[2])) =>
        LET a == last.args[1]
            b == last.args[2]
            product == last.ret[1]
        IN /\ last.err = ""
           /\ Len(last.ret) = 1
           /\ Rows(heap, product) = Rows(heap, a)
           /\ Cols(heap, product) = Cols(heap, b)
           /\ \A rc \in Coords :
                retrieve_value(heap, product, rc[1], rc[2])
                    = PairSum(heap, a, b, rc[1], rc[2])

\* The example of the specification: the 1 x 2 matrix (2, 3) times the
\* 2 x 1 matrix (4, 5) is the 1 x 1 matrix (23).
C4_Witness ==
    /\ last.op = "matrix_multiply"
    /\ last.err = ""
    /\ Data(heap, last.args[1]) = <<[key |-> KeyOf(0, 0), val |-> 2],
                                    [key |-> KeyOf(0, 1), val |-> 3]>>
    /\ Data(heap, last.args[2]) = <<[key |-> KeyOf(0, 0), val |-> 4],
                                    [key |-> KeyOf(1, 0), val |-> 5]>>
    /\ Rows(heap, last.ret[1]) = 1
    /\ Cols(heap, last.ret[1]) = 1
    /\ retrieve_value(heap, last.ret[1], 0, 0) = 23

(***************************************************************************)
(* C5.  add and subtract raise exactly when the operands differ in rows    *)
(* or in cols, multiply raises exactly when self.cols # other.rows; a call *)
(* that raises returns no matrix and creates none, a call that does not    *)
(* returns a matrix.                                                       *)
(***************************************************************************)
C5_DimensionMismatch ==
    (last.op \in BinaryOps) =>
        LET a == last.args[1]
            b == last.args[2]
            mismatch ==
                IF last.op = "matrix_multiply"
                THEN Cols(heap, a) # Rows(heap, b)
                ELSE Rows(heap, a) # Rows(heap, b) \/ Cols(heap, a) # Cols(heap, b)
        IN /\ last.err \in {"", "ValueError"}
           /\ (last.err = "ValueError") <=> mismatch
           /\ last.err # "" => (last.ret = <<>> /\ Len(heap.objs) = Operands)
           /\ last.err = "" => (Len(last.ret) = 1 /\ last.ret[1] \in Refs
                                /\ Len(heap.objs) = Operands + 1)

\* multiply has raised on the 1 x 2 matrix times itself.
C5_Witness ==
    /\ last.op = "matrix_multiply"
    /\ last.err = "ValueError"
    /\ Rows(heap, last.args[1]) = 1
    /\ Cols(heap, last.args[1]) = 2
    /\ last.args[2] = last.args[1]

(***************************************************************************)
(* C6.  A binary operation, whether it returns or raises, leaves every     *)
(* matrix and every dict that existed before it as it was, and the matrix  *)
(* it returns is a new object with a new dict; and an update_value on one  *)
(* matrix, the result included, changes no other matrix.                   *)
(***************************************************************************)
C6_OperandsUntouched ==
    [][/\ (last'.op \in BinaryOps) =>
            /\ \A m \in 1 .. Len(heap.objs) :
                 /\ m <= Len(heap'.objs)
                 /\ heap'.objs[m] = heap.objs[m]
                 /\ Data(heap', m) = Data(heap, m)
            /\ \A d \in 1 .. Len(heap.dicts) :
                 d <= Len(heap'.dicts) /\ heap'.dicts[d] = heap.dicts[d]
            /\ last'.err = "" =>
                 /\ last'.ret[1] \notin 1 .. Len(heap.objs)
                 /\ heap'.objs[last'.ret[1]].matrix_data \notin 1 .. Len(heap.dicts)
       /\ (last'.op = "update_value") =>
            /\ Len(heap'.objs) = Len(heap.objs)
            /\ \A m \in 1 .. Len(heap.objs) :
                 m # last'.args[1] =>
                    /\ heap'.objs[m] = heap.objs[m]
                    /\ Data(heap', m) = Data(heap, m)
      ]_vars

\* An update_value on the matrix a binary operation returned from two
\* different operands that hold keys.
C6_Witness ==
    /\ last.op = "update_value"
    /\ last.args[1] = Operands + 1
    /\ Data(heap, 1) # <<>>
    /\ Data(heap, 2) # <<>>
    /\ Len(Data(heap, Operands + 1)) > 1

(***************************************************************************)
(* C9.  update_value(r, c, v) leaves rows = max(rows, r + 1) and           *)
(* cols = max(cols, c + 1), the key (r, c) present with get(r, c) = v      *)
(* (also for v = 0) and every other key and value as it was; rows and cols *)
(* do not decrease; get reads 0 at every absent key, inside or outside     *)
(* the dimensions.                                                         *)
(***************************************************************************)
C9_SetThenGet ==
    [][(last'.op = "update_value") =>
          LET self == last'.args[1]
              r == last'.args[2]
              c == last'.args[3]
              v == last'.args[4]
              before == StoredCoords(heap, self)
              after == StoredCoords(heap', self)
          IN /\ Rows(heap', self) = Max(Rows(heap, self), r + 1)
             /\ Cols(heap', self) = Max(Cols(heap, self), c + 1)
             /\ Rows(heap', self) >= Rows(heap, self)
             /\ Cols(heap', self) >= Cols(heap, self)
             /\ retrieve_value(heap', self, r, c) = v
             /\ after = before \cup {<<r, c>>}
             /\ Len(Data(heap', self)) = Cardinality(after)
             /\ \A rc \in before \ {<<r, c>>} :
                  retrieve_value(heap', self, rc[1], rc[2])
                      = retrieve_value(heap, self, rc[1], rc[2])
             /\ \A rc \in Coords \ after :
                  retrieve_value(heap', self, rc[1], rc[2]) = 0
      ]_vars

\* update_value has stored a zero beyond the rows of a matrix that holds
\* another key with a nonzero value.
C9_Witness ==
    /\ last.op = "update_value"
    /\ last.args[4] = 0
    /\ Rows(heap, last.args[1]) = last.args[2] + 1
    /\ Cols(heap, last.args[1]) > last.args[3] + 1
    /\ <<last.args[2], last.args[3]>> \in StoredCoords(heap, last.args[1])
    /\ \E rc \in StoredCoords(heap, last.args[1]) :
         retrieve_value(heap, last.args[1], rc[1], rc[2]) # 0

(***************************************************************************)
(* C7.  Round trip: when the saved text of a matrix M is imported, the     *)
(* import returns a matrix with the rows and cols of M that reads, at      *)
(* every key of M, what M reads.                                           *)
(***************************************************************************)
C7_RoundTrip ==
    (last.op = "import_from_file" /\ last.args = <<OutPath>>) =>
        \A m \in Refs :
            (last.ret # <<m>> /\ file = matrix_str(heap, m)) =>
                /\ last.err = ""
                /\ Rows(heap, last.ret[1]) = Rows(heap, m)
                /\ Cols(heap, last.ret[1]) = Cols(heap, m)
                /\ \A rc \in StoredCoords(heap, m) :
                     retrieve_value(heap, last.ret[1], rc[1], rc[2])
                         = retrieve_value(heap, m, rc[1], rc[2])

\* The import of the saved text of a matrix that update_value has grown and
\* that holds two keys, one below the diagonal with a negative value.
C7_Witness ==
    /\ last.op = "import_from_file"
    /\ last.args = <<OutPath>>
    /\ last.err = ""
    /\ \E m \in Refs :
         /\ last.ret # <<m>>
         /\ file = matrix_str(heap, m)
         /\ Len(Data(heap, m)) = 2
         /\ retrieve_value(heap, m, 1, 0) < 0
         /\ nsets > 0

(***************************************************************************)
(* The file format, as the specification words it: at least two non-blank  *)
(* lines, "rows=<int>", "cols=<int>", then lines "(<int>, <int>, <int>)".  *)
(***************************************************************************)
\* An integer literal: digits, with or without a minus sign.
IsIntLiteral(s) ==
    LET digits == IF s # <<>> /\ Head(s) = "-" THEN Tail(s) ELSE s
    IN digits # <<>> /\ \A i \in 1 .. Len(digits) : IsDigit(digits[i])

HasPrefix(s, prefix) == Len(s) >= Len(prefix) /\ SubSeq(s, 1, Len(prefix)) = prefix

IsHeaderLine(line, name) ==
    /\ HasPrefix(line, name \o <<"=">>)
    /\ IsIntLiteral(SubSeq(line, Len(name) + 2, Len(line)))

IsElementLine(line) ==
    /\ Len(line) >= 2
    /\ Head(line) = "("
    /\ line[Len(line)] = ")"
    /\ LET fields == Split(SubSeq(line, 2, Len(line) - 1), ",")
       IN /\ Len(fields) = 3
          /\ IsIntLiteral(fields[1])
          /\ HasPrefix(fields[2], <<" ">>) /\ IsIntLiteral(Tail(fields[2]))
          /\ HasPrefix(fields[3], <<" ">>) /\ IsIntLiteral(Tail(fields[3]))

IsBlank(line) == \A i \in 1 .. Len(line) : line[i] \in Whitespace

\* The trimmed non-blank lines of a text.
NonBlankLines(text) ==
    LET all == Split(text, "\n")
        kept == SelectSeq(all, LAMBDA line : ~IsBlank(line))
    IN [i \in 1 .. Len(kept) |-> Strip(kept[i])]

Conforms(text) ==
    LET lines == NonBlankLines(text)
    IN /\ Len(lines) >= 2
       /\ IsHeaderLine(lines[1], <<"r", "o", "w", "s">>)
       /\ IsHeaderLine(lines[2], <<"c", "o", "l", "s">>)
       /\ \A i \in 3 .. Len(lines) : IsElementLine(lines[i])

(***************************************************************************)
(* C8.  The import of a file that does not conform to the format raises    *)
(* the format error and returns no matrix.                                 *)
(***************************************************************************)
C8_NonConformingRejected ==
    (/\ last.op = "import_from_file"
     /\ last.args[1] \in InputPaths
     /\ Files[last.args[1]] # NoFile
     /\ ~Conforms(Files[last.args[1]])) =>
        (last.err = "ValueError" /\ last.ret = <<>>)

\* The header and the triples of the well-formed files, read off their text.
Expected ==
    [first  |-> [rows |-> 1, cols |-> 2,
                 triples |-> <<<<0, 0, 2>>, <<0, 1, 3>>>>],
     second |-> [rows |-> 1, cols |-> 1,
                 triples |-> <<<<0, 0, -3>>, <<1, 0, 5>>, <<0, 0, 4>>>>]]

\* update_value of the triples from the i-th on, on matrix m.
RECURSIVE ApplyTriples(_, _, _, _)
ApplyTriples(h, m, triples, i) ==
    IF i > Len(triples) THEN h
    ELSE ApplyTriples(update_value(h, m, triples[i][1], triples[i][2], triples[i][3]),
                      m, triples, i + 1)

\* The largest of a non-empty finite set of integers.
Largest(S) == CHOOSE x \in S : \A y \in S : y <= x

(***************************************************************************)
(* C10.  The import of a well-formed file with header rows=R, cols=C and   *)
(* triples t1 .. tn does not raise, also when an index is at or beyond R   *)
(* or C: it returns what the constructor with (R, C) followed by           *)
(* update_value of t1 .. tn gives, so rows = max(R, 1 + largest row        *)
(* index), cols = max(C, 1 + largest col index), and a coordinate the file *)
(* repeats reads the value of its last triple.                             *)
(***************************************************************************)
C10_ImportIsConstructThenSet ==
    (last.op = "import_from_file" /\ last.args[1] \in DOMAIN Expected) =>
        /\ last.err = ""
        /\ Len(last.ret) = 1
        /\ LET e == Expected[last.args[1]]
               m == last.ret[1]
               new == CompressedMatrix([objs |-> <<>>, dicts |-> <<>>], e.rows, e.cols)
               built == ApplyTriples(new.heap, new.ref, e.triples, 1)
               n == Len(e.triples)
           IN /\ Rows(heap, m) = Rows(built, new.ref)
              /\ Cols(heap, m) = Cols(built, new.ref)
              /\ Data(heap, m) = Data(built, new.ref)
              /\ Rows(heap, m) = Max(e.rows, 1 + Largest({e.triples[i][1] : i \in 1 .. n}))
              /\ Cols(heap, m) = Max(e.cols, 1 + Largest({e.triples[i][2] : i \in 1 .. n}))
              /\ \A i \in 1 .. n :
                   (\A j \in (i + 1) .. n :
                        <<e.triples[j][1], e.triples[j][2]>>
                            # <<e.triples[i][1], e.triples[i][2]>>)
                   => retrieve_value(heap, m, e.triples[i][1], e.triples[i][2])
                          = e.triples[i][3]

\* The import of the file whose second triple is in row 1 under the header
\* rows=1 and whose third triple repeats the coordinate of the first.
C10_Witness ==
    /\ last.op = "import_from_file"
    /\ last.args = <<"second">>
    /\ last.err = ""
    /\ Rows(heap, last.ret[1]) = 2
    /\ retrieve_value(heap, last.ret[1], 0, 0) = 4

====
